---- MODULE Spec2Model ----
(***************************************************************************)
(* A model of the jobsearch pipeline: the LLM response parser and the AI   *)
(* ranker (job_matcher), the job board sources (job_board_scraper) and the *)
(* orchestrator with its persisted job store (orchestrator).               *)
(*                                                                         *)
(* Text is modelled character by character: a Python str is a sequence of  *)
(* one-character strings, so that find(), slicing and strip() are computed *)
(* as Python computes them.  A JSON value is a tagged record               *)
(*   [t |-> "num", v |-> 9]      [t |-> "str", v |-> <<"a", "b">>]         *)
(*   [t |-> "arr", v |-> <<..>>] [t |-> "obj", v |-> [key |-> value]]      *)
(* and a Python dict is a function from keys (character sequences) to such *)
(* values.                                                                 *)
(***************************************************************************)
EXTENDS Integers, Sequences, FiniteSets, TLC

VARIABLES
    \* ---- _extract_json_from_llm_response (job_matcher/base.py) ----
    parts,          \* the pieces the backend's response is assembled from
    ai_text,        \* the response handed to the parser
    ppc,            \* "start", "parsed" (response parsed), "both" (bare payload parsed too)
    ai_analysis,    \* outcome of parsing ai_text
    bare_analysis,  \* outcome of parsing the bare payload
    \* ---- _rank_jobs_with_ai (job_matcher) ----
    matcher,        \* the class whose _rank_jobs_with_ai runs
    jobs0,          \* the content of the input jobs when the call started
    jobs,           \* their content now (the loop updates the dicts in place)
    replies,        \* what the backend answered, call by call
    calls,          \* the jobs the backend was called for, in order
    ranked_jobs,    \* the list the loop appends to (identities)
    rpc,            \* "start", "done"
    ranked,         \* the returned list (identities)
    \* ---- _filter_basic_criteria (job_matcher) ----
    fclass,         \* the class whose _filter_basic_criteria runs
    candidate_profile,      \* self.candidate_profile
    candidate_interests,    \* self.candidate_interests
    fjobs0,         \* the content of the input jobs when the call started
    fjobs,          \* their content now
    scanned,        \* how many jobs the loop has passed
    matches,        \* the list the loop appends to (identities)
    fpc,            \* "start", "done", "raised"
    filtered,       \* the returned list (identities)
    \* ---- the sources' search() (job_board_scraper) ----
    source,         \* the class whose search() runs
    keywords,       \* self.keywords
    limit,          \* the limit LinkedInScraper.search is called with
    web,            \* the page the job board answers each keyword's request with
    found,          \* the list search() returns
    spc,            \* "start", "done"
    \* ---- JobSearchAgent.run_job_search (orchestrator) ----
    disk,           \* the file job_database.json
    disk0,          \* the file as it was when this run started
    job_database,   \* self.job_database
    tool_calls,     \* what the source tool returned, call by call, in this run
    result,         \* the dict the agent executor returned in this run
    returned,       \* what run_job_search returned
    opc,            \* "idle", "loaded", "invoked", "done", "failed"
    events,         \* what this run did to the store and the agent, in order
    runs,           \* runs started
    prev            \* how the run before this one ended, and its result

parseVars == <<parts, ai_text, ppc, ai_analysis, bare_analysis>>
rankVars == <<matcher, jobs0, jobs, replies, calls, ranked_jobs, rpc, ranked>>
filterVars ==
    <<fclass, candidate_profile, candidate_interests, fjobs0, fjobs, scanned, matches, fpc,
      filtered>>
srcVars == <<source, keywords, limit, web, found, spc>>
orchVars == <<disk, disk0, job_database, tool_calls, result, returned, opc, events, runs, prev>>
vars == <<parseVars, rankVars, filterVars, srcVars, orchVars>>

\* What the actions of one component leave alone.
notParseVars == <<rankVars, filterVars, srcVars, orchVars>>
notRankVars == <<parseVars, filterVars, srcVars, orchVars>>
notFilterVars == <<parseVars, rankVars, srcVars, orchVars>>
notSrcVars == <<parseVars, rankVars, filterVars, orchVars>>
notOrchVars == <<parseVars, rankVars, filterVars, srcVars>>

-----------------------------------------------------------------------------
(* Python str primitives *)

Min(a, b) == IF a < b THEN a ELSE b
Max(a, b) == IF a > b THEN a ELSE b

\* The whitespace str.strip() removes and json.loads skips (of the characters used here).
Whitespace == {" ", "\n"}

\* A variant of the slice below that takes a negative b for "up to the end".
SliceOpenEnd(s, a, b) ==
    LET n == Len(s)
    IN  SubSeq(s, Min(a, n) + 1, IF b < 0 THEN n ELSE Min(b, n))

\* s[a:b] for a >= 0 (0-based, b exclusive, a negative b counted from the end).
Slice(s, a, b) ==
    LET n  == Len(s)
        lo == Min(a, n)
        hi == IF b < 0 THEN Max(n + b, 0) ELSE Min(b, n)
    IN  SubSeq(s, lo + 1, hi)

\* pat occurs in s at 0-based index i.
OccursAt(s, pat, i) ==
    /\ i >= 0
    /\ i + Len(pat) <= Len(s)
    /\ \A k \in 1..Len(pat) : s[i + k] = pat[k]

\* s.find(pat, from): the lowest index >= from where pat occurs, else -1.
Find(s, pat, from) ==
    LET hits == {i \in from..(Len(s) - Len(pat)) : OccursAt(s, pat, i)}
    IN  IF hits = {} THEN -1 ELSE CHOOSE i \in hits : \A j \in hits : i <= j

\* pat in s
Contains(s, pat) == Find(s, pat, 0) # -1

RECURSIVE LStrip(_)
LStrip(s) == IF s # <<>> /\ Head(s) \in Whitespace THEN LStrip(Tail(s)) ELSE s

RECURSIVE RStrip(_)
RStrip(s) ==
    IF s # <<>> /\ s[Len(s)] \in Whitespace THEN RStrip(SubSeq(s, 1, Len(s) - 1)) ELSE s

\* s.strip()
Strip(s) == RStrip(LStrip(s))

-----------------------------------------------------------------------------
(* json.loads, for the JSON subset the modelled responses are written in:  *)
(* objects, arrays, strings without escapes, integers.  Every other text   *)
(* the model feeds it is one json.loads rejects as well.                   *)

Digits == {"0", "1", "2", "3", "4", "5", "6", "7", "8", "9"}

DigitVal(c) ==
    CASE c = "0" -> 0 [] c = "1" -> 1 [] c = "2" -> 2 [] c = "3" -> 3 [] c = "4" -> 4
      [] c = "5" -> 5 [] c = "6" -> 6 [] c = "7" -> 7 [] c = "8" -> 8 [] c = "9" -> 9

JNum(n) == [t |-> "num", v |-> n]
JStr(s) == [t |-> "str", v |-> s]
JArr(a) == [t |-> "arr", v |-> a]
JObj(f) == [t |-> "obj", v |-> f]

\* The empty dict.
EmptyDict == [k \in {} |-> JNum(0)]

\* d with key k set to value x.
DictSet(d, k, x) == [q \in DOMAIN d \cup {k} |-> IF q = k THEN x ELSE d[q]]

\* a.update(b) for two dicts.
DictMerge(a, b) == [q \in DOMAIN a \cup DOMAIN b |-> IF q \in DOMAIN b THEN b[q] ELSE a[q]]

ParseFail == [ok |-> FALSE]
ParseOk(x, i) == [ok |-> TRUE, val |-> x, next |-> i]

RECURSIVE SkipWs(_, _)
SkipWs(s, i) == IF i <= Len(s) /\ s[i] \in Whitespace THEN SkipWs(s, i + 1) ELSE i

\* The digits of s from position i on, accumulated into acc.
RECURSIVE ScanDigits(_, _, _)
ScanDigits(s, i, acc) ==
    IF i <= Len(s) /\ s[i] \in Digits
    THEN ScanDigits(s, i + 1, 10 * acc + DigitVal(s[i]))
    ELSE ParseOk(acc, i)

\* A JSON integer at position i: -? (0 | [1-9][0-9]*).
ParseNumber(s, i) ==
    LET neg == i <= Len(s) /\ s[i] = "-"
        j   == IF neg THEN i + 1 ELSE i
    IN  IF j > Len(s) \/ s[j] \notin Digits THEN ParseFail
        ELSE IF s[j] = "0" THEN ParseOk(JNum(0), j + 1)
        ELSE LET r == ScanDigits(s, j, 0)
             IN  ParseOk(JNum(IF neg THEN 0 - r.val ELSE r.val), r.next)

\* A JSON string at position i (s[i] is the opening quote): up to the next quote; a
\* raw line break inside it is a control character, which json.loads rejects.
ParseString(s, i) ==
    LET closing == {j \in (i + 1)..Len(s) : s[j] = "\""}
    IN  IF closing = {} THEN ParseFail
        ELSE LET j    == CHOOSE j \in closing : \A k \in closing : j <= k
                 body == SubSeq(s, i + 1, j - 1)
             IN  IF \E k \in 1..Len(body) : body[k] = "\n" THEN ParseFail
                 ELSE ParseOk(JStr(body), j + 1)

RECURSIVE ParseValue(_, _), ParseItems(_, _, _), ParseMembers(_, _, _)

\* The value at position i (whitespace before it already skipped).
ParseValue(s, i) ==
    IF i > Len(s) THEN ParseFail
    ELSE IF s[i] = "\"" THEN ParseString(s, i)
    ELSE IF s[i] = "-" \/ s[i] \in Digits THEN ParseNumber(s, i)
    ELSE IF s[i] = "[" THEN
        LET j == SkipWs(s, i + 1)
        IN  IF j <= Len(s) /\ s[j] = "]" THEN ParseOk(JArr(<<>>), j + 1)
            ELSE ParseItems(s, j, <<>>)
    ELSE IF s[i] = "{" THEN
        LET j == SkipWs(s, i + 1)
        IN  IF j <= Len(s) /\ s[j] = "}" THEN ParseOk(JObj(EmptyDict), j + 1)
            ELSE ParseMembers(s, j, EmptyDict)
    ELSE ParseFail

\* The items of an array from position i on, after those in acc.
ParseItems(s, i, acc) ==
    LET r == ParseValue(s, i)
    IN  IF ~r.ok THEN ParseFail
        ELSE LET j == SkipWs(s, r.next)
                 a == Append(acc, r.val)
             IN  IF j > Len(s) THEN ParseFail
                 ELSE IF s[j] = "]" THEN ParseOk(JArr(a), j + 1)
                 ELSE IF s[j] = "," THEN ParseItems(s, SkipWs(s, j + 1), a)
                 ELSE ParseFail

\* The members of an object from position i on, after those in acc (a repeated key
\* keeps its last value).
ParseMembers(s, i, acc) ==
    IF i > Len(s) \/ s[i] # "\"" THEN ParseFail
    ELSE LET k == ParseString(s, i)
         IN  IF ~k.ok THEN ParseFail
             ELSE LET c == SkipWs(s, k.next)
                  IN  IF c > Len(s) \/ s[c] # ":" THEN ParseFail
                      ELSE LET r == ParseValue(s, SkipWs(s, c + 1))
                           IN  IF ~r.ok THEN ParseFail
                               ELSE LET j == SkipWs(s, r.next)
                                        d == DictSet(acc, k.val.v, r.val)
                                    IN  IF j > Len(s) THEN ParseFail
                                        ELSE IF s[j] = "}" THEN ParseOk(JObj(d), j + 1)
                                        ELSE IF s[j] = ","
                                             THEN ParseMembers(s, SkipWs(s, j + 1), d)
                                        ELSE ParseFail

\* json.loads(s): one value with nothing but whitespace around it, else JSONDecodeError.
JsonLoads(s) ==
    LET r == ParseValue(s, SkipWs(s, 1))
    IN  IF r.ok /\ SkipWs(s, r.next) > Len(s) THEN [ok |-> TRUE, val |-> r.val]
        ELSE ParseFail

-----------------------------------------------------------------------------
(* BaseJobMatcher._extract_json_from_llm_response (job_matcher/base.py) *)

\* The backtick character (U+0060), which a TLA+ string cannot hold: the model writes
\* it as a tilde, a character no modelled text uses otherwise.
BT == "~"

K_experience_match_score ==
    <<"e", "x", "p", "e", "r", "i", "e", "n", "c", "e", "_", "m", "a", "t", "c", "h",
    "_", "s", "c", "o", "r", "e">>
K_interest_match_score ==
    <<"i", "n", "t", "e", "r", "e", "s", "t", "_", "m", "a", "t", "c", "h", "_", "s",
    "c", "o", "r", "e">>
K_interview_probability ==
    <<"i", "n", "t", "e", "r", "v", "i", "e", "w", "_", "p", "r", "o", "b", "a", "b",
    "i", "l", "i", "t", "y">>
K_overall_score == <<"o", "v", "e", "r", "a", "l", "l", "_", "s", "c", "o", "r", "e">>
K_match_reasons == <<"m", "a", "t", "c", "h", "_", "r", "e", "a", "s", "o", "n", "s">>
K_summary == <<"s", "u", "m", "m", "a", "r", "y">>
K_ai_analysis_error ==
    <<"a", "i", "_", "a", "n", "a", "l", "y", "s", "i", "s", "_", "e", "r", "r", "o",
    "r">>
SentinelReason ==
    <<"E", "r", "r", "o", "r", " ", "p", "a", "r", "s", "i", "n", "g", " ", "A", "I",
    " ", "r", "e", "s", "p", "o", "n", "s", "e">>
SentinelSummary ==
    <<"E", "r", "r", "o", "r", " ", "i", "n", " ", "a", "n", "a", "l", "y", "s", "i",
    "s">>
Fence == <<BT, BT, BT>>
FenceJson == <<BT, BT, BT, "j", "s", "o", "n">>

\* The annotation returned when the extracted text is not JSON.
Sentinel ==
    JObj([k \in {K_experience_match_score, K_interest_match_score,
                 K_interview_probability, K_overall_score, K_match_reasons, K_summary} |->
            IF k = K_match_reasons THEN JArr(<<JStr(SentinelReason)>>)
            ELSE IF k = K_summary THEN JStr(SentinelSummary)
            ELSE JNum(0)])

\* The text handed to json.loads: what lies between the first fence labeled json and
\* the next fence, else between the first fence and the next, else the stripped text.
\* find() answers -1 when no fence follows, and the slice then ends before the last
\* character.
\* A variant of the selection below that skips only the three backticks of a
\* json fence and so keeps its label in the selected text.
JsonStrLabelKept(stripped) ==
    IF Contains(stripped, FenceJson) THEN
        LET start == Find(stripped, FenceJson, 0) + 3
            end   == Find(stripped, Fence, start)
        IN  Strip(Slice(stripped, start, end))
    ELSE IF Contains(stripped, Fence) THEN
        LET start == Find(stripped, Fence, 0) + 3
            end   == Find(stripped, Fence, start)
        IN  Strip(Slice(stripped, start, end))
    ELSE stripped

\* A variant of the selection below that ends at the last fence of the text instead
\* of the next one.
JsonStrToLastFence(stripped) ==
    LET ends(start) == {i \in start..(Len(stripped) - 3) : OccursAt(stripped, Fence, i)}
        last(start) == IF ends(start) = {} THEN -1
                       ELSE CHOOSE i \in ends(start) : \A j \in ends(start) : j <= i
    IN  IF Contains(stripped, FenceJson) THEN
            LET start == Find(stripped, FenceJson, 0) + 7
            IN  Strip(Slice(stripped, start, last(start)))
        ELSE IF Contains(stripped, Fence) THEN
            LET start == Find(stripped, Fence, 0) + 3
            IN  Strip(Slice(stripped, start, last(start)))
        ELSE stripped

JsonStr(stripped) ==
    IF Contains(stripped, FenceJson) THEN
        LET start == Find(stripped, FenceJson, 0) + 7
            end   == Find(stripped, Fence, start)
        IN  Strip(Slice(stripped, start, end))
    ELSE IF Contains(stripped, Fence) THEN
        LET start == Find(stripped, Fence, 0) + 3
            end   == Find(stripped, Fence, start)
        IN  Strip(Slice(stripped, start, end))
    ELSE stripped

\* A response is [none |-> FALSE, s |-> text], or [none |-> TRUE, ...] for a backend
\* reply that carries no text (None): None.strip() raises AttributeError, which the
\* parser's except clause (JSONDecodeError only) does not catch.
Returned(x) == [raised |-> FALSE, val |-> x]
Raised(e) == [raised |-> TRUE, exc |-> e]

\* A variant of the parser below that answers with the sentinel whenever the
\* selected text is not a JSON object.
ExtractJsonObjectsOnly(text) ==
    IF text.none THEN Raised("AttributeError")
    ELSE LET r == JsonLoads(JsonStr(Strip(text.s)))
         IN  IF r.ok /\ r.val.t = "obj" THEN Returned(r.val) ELSE Returned(Sentinel)

ExtractJson(text) ==
    IF text.none THEN Raised("AttributeError")
    ELSE LET r == JsonLoads(JsonStr(Strip(text.s)))
         IN  IF r.ok THEN Returned(r.val) ELSE Returned(Sentinel)

-----------------------------------------------------------------------------
(* The responses the parser is run on: leading prose, an opening fence,    *)
(* line breaks, a payload, line breaks, a closing fence; every piece may   *)
(* be absent.                                                             *)

PayloadScores ==
    <<"{", "\"", "o", "v", "e", "r", "a", "l", "l", "_", "s", "c", "o", "r", "e", "\"",
    ":", " ", "9", "}">>
PayloadFull ==
    <<"{", "\"", "o", "v", "e", "r", "a", "l", "l", "_", "s", "c", "o", "r", "e", "\"",
    ":", " ", "7", ",", " ", "\"", "s", "u", "m", "m", "a", "r", "y", "\"", ":", " ",
    "\"", "o", "k", "\"", "}">>
PayloadNumber == <<"5">>
PayloadArray == <<"[", "]">>
PayloadString == <<"\"", "\"">>
PayloadProse ==
    <<"n", "o", "t", " ", "j", "s", "o", "n", " ", "a", "t", " ", "a", "l", "l">>
PayloadCut ==
    <<"{", "\"", "o", "v", "e", "r", "a", "l", "l", "_", "s", "c", "o", "r", "e", "\"",
    ":", " ", "9">>
PayloadQuoted ==
    <<"{", "\"", "s", "u", "m", "m", "a", "r", "y", "\"", ":", " ", "\"", BT, BT,
    BT, "1", BT, BT, BT, "\"", "}">>
ProseHere == <<"H", "e", "r", "e", " ", "y", "o", "u", " ", "g", "o", ":", "\n">>
ProseGeneric == <<"U", "s", "e", " ", BT, BT, BT, " ", "s", "o", ":", "\n">>
ProseJson == <<"A", "s", " ", BT, BT, BT, "j", "s", "o", "n", ":", "\n">>

\* Most line breaks put between a fence and the payload.
MaxPad == 1

Proses == {<<>>, ProseHere, ProseGeneric, ProseJson}
Opens == {<<>>, Fence, FenceJson}
Closes == {<<>>, Fence}
Payloads ==
    {<<>>, PayloadScores, PayloadFull, PayloadNumber, PayloadArray, PayloadString,
     PayloadProse, PayloadCut, PayloadQuoted}

RECURSIVE Pad(_)
Pad(n) == IF n = 0 THEN <<>> ELSE <<"\n">> \o Pad(n - 1)

Text(s) == [none |-> FALSE, s |-> s]
NoText == [none |-> TRUE, s |-> <<>>]

Response(p) ==
    IF p.none THEN NoText
    ELSE Text(p.prose \o p.open \o Pad(p.pad) \o p.payload \o Pad(p.pad) \o p.close)

PartsSet ==
    [none : BOOLEAN, prose : Proses, open : Opens, pad : 0..MaxPad, payload : Payloads,
     close : Closes]

NotRun == [raised |-> FALSE, val |-> JStr(<<>>), pending |-> TRUE]

ParseInit ==
    /\ parts \in {p \in PartsSet : p.none => p = [none |-> TRUE, prose |-> <<>>,
                                  open |-> <<>>, pad |-> 0, payload |-> <<>>, close |-> <<>>]}
    /\ ai_text = Response(parts)
    /\ ppc = "start"
    /\ ai_analysis = NotRun
    /\ bare_analysis = NotRun

\* The backend's response is parsed.
ParseResponse ==
    /\ ppc = "start"
    /\ ai_analysis' = ExtractJson(ai_text)
    /\ ppc' = "parsed"
    /\ UNCHANGED <<parts, ai_text, bare_analysis>>
    /\ UNCHANGED notParseVars

\* The payload alone is parsed, as a response of its own.
ParseBare ==
    /\ ppc = "parsed"
    /\ ~parts.none
    /\ bare_analysis' = ExtractJson(Text(parts.payload))
    /\ ppc' = "both"
    /\ UNCHANGED <<parts, ai_text, ai_analysis>>
    /\ UNCHANGED notParseVars

ParseNext == ParseResponse \/ ParseBare

-----------------------------------------------------------------------------
(* _rank_jobs_with_ai of ClaudeJobMatcher, GroqJobMatcher,                 *)
(* HuggingFaceJobMatcher and JobMatcher (job_matcher/).                    *)
(*                                                                         *)
(* The jobs are Python dict objects that the loop updates in place: job i  *)
(* of the input list is the object with identity i, jobs[i] is its current *)
(* content and jobs0[i] its content when the call started; ranked_jobs and *)
(* the returned list hold identities.  str(e) of a caught exception is     *)
(* abbreviated to the exception's class, except where two matchers differ  *)
(* in it.                                                                  *)
(*                                                                         *)
(* Every iteration starts by building the prompt, an f-string whose        *)
(* "Output Format" part shows a JSON object in single braces: Python reads *)
(*   { "experience_match_score": 0-10, ... }                               *)
(* as a replacement field, the str "experience_match_score" formatted with *)
(* the rest as its format specifier, and format() raises ValueError        *)
(* ("Invalid format specifier") on every call.  The except clause of the   *)
(* loop body catches it, so the backend is not reached.                    *)

K_title == <<"t", "i", "t", "l", "e">>
K_company == <<"c", "o", "m", "p", "a", "n", "y">>
K_url == <<"u", "r", "l">>
K_description == <<"d", "e", "s", "c", "r", "i", "p", "t", "i", "o", "n">>
PayloadLow ==
    <<"{", "\"", "o", "v", "e", "r", "a", "l", "l", "_", "s", "c", "o", "r", "e", "\"",
    ":", " ", "3", "}">>
PayloadText ==
    <<"{", "\"", "o", "v", "e", "r", "a", "l", "l", "_", "s", "c", "o", "r", "e", "\"",
    ":", " ", "\"", "9", "\"", "}">>
PayloadPairs ==
    <<"[", "[", "\"", "o", "v", "e", "r", "a", "l", "l", "_", "s", "c", "o", "r", "e",
    "\"", ",", " ", "5", "]", "]">>
PayloadRetitled ==
    <<"{", "\"", "t", "i", "t", "l", "e", "\"", ":", " ", "\"", "X", "\"", "}">>
PayloadPairsCut ==
    <<"[", "[", "\"", "o", "v", "e", "r", "a", "l", "l", "_", "s", "c", "o", "r", "e",
    "\"", ",", " ", "5", "]", ",", " ", "7", "]">>
MsgTransport == <<"T", "i", "m", "e", "o", "u", "t">>
MsgStatus == <<"A", "P", "I", "E", "r", "r", "o", "r">>
MsgEnvelope == <<"I", "n", "d", "e", "x", "E", "r", "r", "o", "r">>
MsgNoText == <<"A", "t", "t", "r", "i", "b", "u", "t", "e", "E", "r", "r", "o", "r">>
MsgNotIterable == <<"T", "y", "p", "e", "E", "r", "r", "o", "r">>
MsgPairLength == <<"V", "a", "l", "u", "e", "E", "r", "r", "o", "r">>
MsgJSONDecode == <<"J", "S", "O", "N", "D", "e", "c", "o", "d", "e", "E", "r", "r", "o", "r">>
\* str(KeyError(k)) is the key in quotes.
MsgKeyTitle == <<"'", "t", "i", "t", "l", "e", "'">>
MsgKeyCompany == <<"'", "c", "o", "m", "p", "a", "n", "y", "'">>
MsgKeyDescription == <<"'", "d", "e", "s", "c", "r", "i", "p", "t", "i", "o", "n", "'">>
\* The ValueError of the prompt quotes the format specifier, the lines of the template
\* behind the colon: they are indented by 12 columns in base.py and by 24 in
\* job_matcher.py, so the two messages differ.
MsgFormatSpecBase == <<"V", "a", "l", "u", "e", "E", "r", "r", "o", "r", " ", "1", "2">>
MsgFormatSpecLegacy == <<"V", "a", "l", "u", "e", "E", "r", "r", "o", "r", " ", "2", "4">>

Matchers == {"ClaudeJobMatcher", "GroqJobMatcher", "HuggingFaceJobMatcher", "JobMatcher"}

\* Most jobs handed to the ranker.
MaxJobs == 4

\* Job i as the sources and the keyword filter hand it over: the keys
\* _standardize_job always sets that the ranker reads.
BaseJob(i) ==
    [k \in {K_title, K_company, K_url} |->
        IF k = K_title THEN JStr(<<"J", ToString(i)>>)
        ELSE IF k = K_company THEN JStr(<<"C">>)
        ELSE JStr(<<"u", ToString(i)>>)]

\* A job handed to the ranker is any dict: it may lack a description, and it may
\* carry an overall_score already (a record an earlier ranking annotated), a number
\* or, as a backend may write it, a str.
NoScore == [t |-> "none", v |-> 0]
InputScores == {NoScore, JNum(1), JNum(3), JNum(9), JStr(<<"9">>)}

InputJob(i, described, score) ==
    LET d1 == IF described THEN DictSet(BaseJob(i), K_description, JStr(<<"d">>))
              ELSE BaseJob(i)
    IN  IF score = NoScore THEN d1 ELSE DictSet(d1, K_overall_score, score)

\* What the backend does for one job: the transport raises; it answers with a status
\* other than 200; its body is not the expected envelope; or it answers with a text
\* (NoText: the envelope holds None where the text should be).
Fenced(p) == FenceJson \o <<"\n">> \o p \o <<"\n">> \o Fence

ReplyTexts ==
    {Text(PayloadScores), Text(PayloadLow), Text(ProseHere \o Fenced(PayloadFull)),
     Text(PayloadProse), Text(PayloadNumber), Text(PayloadText), Text(PayloadPairs),
     Text(PayloadPairsCut), Text(PayloadRetitled), NoText}

Replies ==
    {[kind |-> k, text |-> NoText] : k \in {"raise", "status", "envelope"}}
        \cup {[kind |-> "text", text |-> x] : x \in ReplyTexts}

UpdateOk(d) == [ok |-> TRUE, d |-> d]
UpdateRaised(d, msg) == [ok |-> FALSE, d |-> d, msg |-> msg]

\* dict.update with a sequence: every item must be a pair; the pairs before a bad item
\* stay written.  (Pairs whose key is not a string do not occur in the modelled
\* responses.)
RECURSIVE UpdatePairs(_, _, _)
UpdatePairs(d, items, i) ==
    IF i > Len(items) THEN UpdateOk(d)
    ELSE LET e == items[i]
         IN  CASE e.t = "arr" /\ Len(e.v) = 2 /\ e.v[1].t = "str" ->
                    UpdatePairs(DictSet(d, e.v[1].v, e.v[2]), items, i + 1)
               [] e.t = "arr" /\ Len(e.v) # 2 -> UpdateRaised(d, MsgPairLength)
               [] e.t = "str" /\ Len(e.v) = 2 ->
                    UpdatePairs(DictSet(d, <<e.v[1]>>, JStr(<<e.v[2]>>)), items, i + 1)
               [] e.t = "str" /\ Len(e.v) # 2 -> UpdateRaised(d, MsgPairLength)
               [] e.t = "obj" /\ Cardinality(DOMAIN e.v) # 2 ->
                    UpdateRaised(d, MsgPairLength)
               [] e.t = "num" -> UpdateRaised(d, MsgNotIterable)

\* job.update(x) for a parsed value x: a mapping is merged in, a sequence is read as
\* pairs, anything else raises.
DictUpdate(d, x) ==
    CASE x.t = "obj" -> UpdateOk(DictMerge(d, x.v))
      [] x.t = "arr" -> UpdatePairs(d, x.v, 1)
      [] x.t = "str" -> IF x.v = <<>> THEN UpdateOk(d) ELSE UpdateRaised(d, MsgPairLength)
      [] x.t = "num" -> UpdateRaised(d, MsgNotIterable)

\* A variant of the except clause below that empties match_reasons as well.
MarkedReasonsCleared(d, msg) ==
    DictSet(DictSet(d, K_match_reasons, JArr(<<>>)), K_ai_analysis_error, JStr(msg))

\* The except clause: job["ai_analysis_error"] = str(e).
Marked(d, msg) == DictSet(d, K_ai_analysis_error, JStr(msg))

\* BaseJobMatcher._prepare_analysis_prompt: the f-string reads job['title'] and
\* job['company'] (KeyError when missing) and job.get('description', ...), and then
\* formats the str "experience_match_score" with an invalid format specifier.
PrepareAnalysisPrompt(d) ==
    IF K_title \notin DOMAIN d THEN Raised(MsgKeyTitle)
    ELSE IF K_company \notin DOMAIN d THEN Raised(MsgKeyCompany)
    ELSE Raised(MsgFormatSpecBase)

\* The prompt of JobMatcher, built in the loop body: the same f-string, but it reads
\* job['description'] as well.
LegacyPrompt(d) ==
    IF K_title \notin DOMAIN d THEN Raised(MsgKeyTitle)
    ELSE IF K_company \notin DOMAIN d THEN Raised(MsgKeyCompany)
    ELSE IF K_description \notin DOMAIN d THEN Raised(MsgKeyDescription)
    ELSE Raised(MsgFormatSpecLegacy)

\* A variant of the prompt below that is built whatever the job holds (the braces of
\* its "Output Format" part doubled).
PromptBuilt(m, d) == Returned(<<>>)

Prompt(m, d) == IF m = "JobMatcher" THEN LegacyPrompt(d) ELSE PrepareAnalysisPrompt(d)

\* JobMatcher parses the response in the loop body, with the same selection of the
\* text but no sentinel: a json.loads that raises goes to the loop's except clause.
LegacyExtract(text) ==
    IF text.none THEN Raised(MsgNoText)
    ELSE LET r == JsonLoads(JsonStr(Strip(text.s)))
         IN  IF r.ok THEN Returned(r.val) ELSE Raised(MsgJSONDecode)

Extract(m, text) ==
    IF m = "JobMatcher" THEN LegacyExtract(text)
    ELSE LET a == ExtractJson(text)
         IN  IF a.raised THEN Raised(MsgNoText) ELSE a

\* The loop body behind the prompt: the backend's answer is read and parsed, and the
\* job updated with it.
AnalyzeReply(m, d, reply) ==
    IF reply.kind = "raise" THEN Marked(d, MsgTransport)
    ELSE IF reply.kind = "status" THEN Marked(d, MsgStatus)
    ELSE IF reply.kind = "envelope" THEN Marked(d, MsgEnvelope)
    ELSE LET a == Extract(m, reply.text)
         IN  IF a.raised THEN Marked(d, a.exc)
             ELSE LET u == DictUpdate(d, a.val)
                  IN  IF u.ok THEN u.d ELSE Marked(u.d, u.msg)

\* The entry of replies for a job the backend was not called for.
NotCalled == [kind |-> "none", text |-> NoText]

\* One pass of the loop body of matcher m over a job with content d.
AnalyzeJob(m, d, reply) ==
    LET p == Prompt(m, d)
    IN  IF p.raised THEN Marked(d, p.exc) ELSE AnalyzeReply(m, d, reply)

\* The characters of the modelled texts in code point order.
CodePoints ==
    <<"\n", " ", "\"", "'", ",", "-", "0", "1", "2", "3", "4", "5", "6", "7", "8", "9",
      ":", "A", "C", "E", "H", "I", "J", "P", "T", "U", "V", "[", "]", "_", BT, "a", "b",
      "c", "d", "e", "g", "h", "i", "j", "k", "l", "m", "n", "o", "p", "r", "s", "t",
      "u", "v", "w", "x", "y", "{", "}">>

Ord(c) == CHOOSE i \in 1..Len(CodePoints) : CodePoints[i] = c

\* a < b for two str.
RECURSIVE StrLess(_, _)
StrLess(a, b) ==
    IF b = <<>> THEN FALSE
    ELSE IF a = <<>> THEN TRUE
    ELSE IF Head(a) = Head(b) THEN StrLess(Tail(a), Tail(b))
    ELSE Ord(Head(a)) < Ord(Head(b))

\* key=lambda x: x.get("overall_score", 0)
SortKey(d) == IF K_overall_score \in DOMAIN d THEN d[K_overall_score] ELSE JNum(0)

\* Python orders two keys only when both are numbers or both are str (the modelled
\* responses give overall_score no other kind of value).
Comparable(a, b) == a.t = b.t /\ a.t \in {"num", "str"}

KeyLess(a, b) == IF a.t = "num" THEN a.v < b.v ELSE StrLess(a.v, b.v)

\* list.sort compares every element with another one: with two or more elements it
\* raises TypeError as soon as the keys are not all of one comparable kind.
SortRaises(ds, ids) ==
    /\ Len(ids) >= 2
    /\ \E i, j \in 1..Len(ids) : ~Comparable(SortKey(ds[ids[i]]), SortKey(ds[ids[j]]))

\* A variant of the insertion below that keeps one element per key: x is left out
\* when an element of equal key is in the list already.
RECURSIVE InsertDescOnePerKey(_, _, _)
InsertDescOnePerKey(ds, acc, x) ==
    IF acc = <<>> THEN <<x>>
    ELSE IF KeyLess(SortKey(ds[Head(acc)]), SortKey(ds[x])) THEN <<x>> \o acc
    ELSE IF ~KeyLess(SortKey(ds[x]), SortKey(ds[Head(acc)])) THEN acc
    ELSE <<Head(acc)>> \o InsertDescOnePerKey(ds, Tail(acc), x)

\* A variant of the insertion below that puts x before the elements of equal key: a
\* sort that is not stable.
RECURSIVE InsertDescBeforeEqual(_, _, _)
InsertDescBeforeEqual(ds, acc, x) ==
    IF acc = <<>> THEN <<x>>
    ELSE IF ~KeyLess(SortKey(ds[x]), SortKey(ds[Head(acc)])) THEN <<x>> \o acc
    ELSE <<Head(acc)>> \o InsertDescBeforeEqual(ds, Tail(acc), x)

\* x put into the descending list acc behind every element whose key is not smaller.
RECURSIVE InsertDesc(_, _, _)
InsertDesc(ds, acc, x) ==
    IF acc = <<>> THEN <<x>>
    ELSE IF KeyLess(SortKey(ds[Head(acc)]), SortKey(ds[x])) THEN <<x>> \o acc
    ELSE <<Head(acc)>> \o InsertDesc(ds, Tail(acc), x)

\* ranked_jobs.sort(key=..., reverse=True): descending, equal keys in their old order.
RECURSIVE SortDesc(_, _, _)
SortDesc(ds, ids, acc) ==
    IF ids = <<>> THEN acc ELSE SortDesc(ds, Tail(ids), InsertDesc(ds, acc, Head(ids)))

RankInit ==
    /\ matcher \in Matchers
    /\ \E n \in 0..MaxJobs, described \in BOOLEAN :
         \E score \in [1..n -> InputScores] :
            jobs0 = [i \in 1..n |-> InputJob(i, described, score[i])]
    /\ jobs = jobs0
    /\ replies = <<>>
    /\ calls = <<>>
    /\ ranked_jobs = <<>>
    /\ rpc = "start"
    /\ ranked = <<>>

\* if not jobs: return []
RankEmpty ==
    /\ rpc = "start"
    /\ jobs = <<>>
    /\ rpc' = "done"
    /\ ranked' = <<>>
    /\ UNCHANGED <<matcher, jobs0, jobs, replies, calls, ranked_jobs>>
    /\ UNCHANGED notRankVars

\* What the loop body gets from the backend for a job with content d: nothing when
\* the prompt raises, since the call is behind it; otherwise one of Replies.
RepliesFor(m, d) == IF Prompt(m, d).raised THEN {NotCalled} ELSE Replies

\* One iteration of "for job in jobs": the prompt is built; when that succeeds the
\* backend is called for the job and answers in one of the ways of Replies.
RankJob ==
    /\ rpc = "start"
    /\ Len(ranked_jobs) < Len(jobs)
    /\ LET i == Len(ranked_jobs) + 1
       IN  \E reply \in RepliesFor(matcher, jobs[i]) :
             /\ calls' = IF reply = NotCalled THEN calls ELSE Append(calls, i)
             /\ replies' = Append(replies, reply)
             /\ jobs' = [jobs EXCEPT ![i] = AnalyzeJob(matcher, jobs[i], reply)]
             /\ ranked_jobs' = Append(ranked_jobs, i)
    /\ UNCHANGED <<matcher, jobs0, rpc, ranked>>
    /\ UNCHANGED notRankVars

\* After the loop: sort and return ranked_jobs; when the sort raises, the outer except
\* clause returns the input list.
RankSort ==
    /\ rpc = "start"
    /\ jobs # <<>>
    /\ Len(ranked_jobs) = Len(jobs)
    /\ ranked' = IF SortRaises(jobs, ranked_jobs) THEN [i \in 1..Len(jobs) |-> i]
                 ELSE SortDesc(jobs, ranked_jobs, <<>>)
    /\ rpc' = "done"
    /\ UNCHANGED <<matcher, jobs0, jobs, replies, calls, ranked_jobs>>
    /\ UNCHANGED notRankVars

RankNext == RankEmpty \/ RankJob \/ RankSort

\* _rank_jobs_with_ai of matcher m as a function: the jobs ds after the loop has
\* passed over them with the backend outcomes rs, and the returned order.
RECURSIVE AnalyzeAll(_, _, _, _)
AnalyzeAll(m, ds, rs, i) ==
    IF i > Len(ds) THEN ds
    ELSE AnalyzeAll(m, [ds EXCEPT ![i] = AnalyzeJob(m, ds[i], rs[i])], rs, i + 1)

RankOutcome(m, ds, rs) ==
    LET js  == AnalyzeAll(m, ds, rs, 1)
        ids == [i \in 1..Len(ds) |-> i]
    IN  [jobs   |-> js,
         ranked |-> IF ds = <<>> THEN <<>>
                    ELSE IF SortRaises(js, ids) THEN ids
                    ELSE SortDesc(js, ids, <<>>)]

-----------------------------------------------------------------------------
(* _filter_basic_criteria of BaseJobMatcher (job_matcher/base.py) and of   *)
(* JobMatcher (job_matcher/job_matcher.py).                                *)
(*                                                                         *)
(* As in the ranker, job i of the input list is the dict object with       *)
(* identity i: fjobs[i] is its current content, fjobs0[i] its content when *)
(* the call started, and matches and the returned list hold identities.    *)
(* The two classes differ in one place: JobMatcher reads                   *)
(* job["description"], BaseJobMatcher job.get("description", "").          *)

K_skills == <<"s", "k", "i", "l", "l", "s">>
K_initial_match_score ==
    <<"i", "n", "i", "t", "i", "a", "l", "_", "m", "a", "t", "c", "h", "_", "s", "c", "o",
      "r", "e">>

\* str.lower(), for the letters used here.
UpperCase == <<"A", "C", "D", "I", "L", "M", "P", "Y">>
LowerCase == <<"a", "c", "d", "i", "l", "m", "p", "y">>
LowerChar(c) ==
    IF \E k \in 1..Len(UpperCase) : UpperCase[k] = c
    THEN LowerCase[CHOOSE k \in 1..Len(UpperCase) : UpperCase[k] = c]
    ELSE c
Lower(s) == [k \in 1..Len(s) |-> LowerChar(s[k])]

FilterClasses == {"BaseJobMatcher", "JobMatcher"}

\* self.candidate_interests: a list of str; it may hold an empty str, the same
\* interest twice, and interests that differ in case only.
InterestLists ==
    { <<>>,
      << <<>> >>,
      << <<"a", "i">> >>,
      << <<"A", "I">>, <<"m", "l">> >>,
      << <<"a", "i">>, <<"a", "i">> >>,
      << <<"c", "o", "d">>, <<"A", "i">> >> }

\* self.candidate_profile: a dict, with or without the key "skills".
SkillLists ==
    { <<>>,
      << JStr(<<>>), JStr(<<>>) >>,
      << JStr(<<"p", "y">>) >>,
      << JStr(<<"P", "Y">>), JStr(<<"m", "l">>) >>,
      << JStr(<<"D", "a", "m">>), JStr(<<"p", "y">>), JStr(<<"p", "y">>) >> }
Profiles == {EmptyDict} \cup {DictSet(EmptyDict, K_skills, JArr(l)) : l \in SkillLists}

\* The jobs handed to the filter: a title, and a description or none.
Titles == { <<"A", "I", " ", "D", "e", "v">>, <<"C", "o", "o", "k">> }
Descriptions ==
    { <<>>,
      <<"M", "L", " ", "i", "n", " ", "P", "y">>,
      <<"m", "a", "i", "d">> }
FilterJobs ==
    {DictSet(EmptyDict, K_title, JStr(t)) : t \in Titles}
        \cup {DictSet(DictSet(EmptyDict, K_title, JStr(t)), K_description, JStr(d)) :
                t \in Titles, d \in Descriptions}

MaxFilterJobs == 2

\* skills = self.candidate_profile.get("skills", [])
Skills(profile) == IF K_skills \in DOMAIN profile THEN profile[K_skills].v ELSE <<>>

\* job.get("description", "")
GetDescription(job) == IF K_description \in DOMAIN job THEN job[K_description].v ELSE <<>>

ReasonInterest ==
    <<"M", "a", "t", "c", "h", "e", "s", " ", "i", "n", "t", "e", "r", "e", "s", "t", ":",
      " ">>
ReasonSkill == <<"M", "a", "t", "c", "h", "e", "s", " ", "s", "k", "i", "l", "l", ":", " ">>

\* score = 0; reasons = []
Acc0 == [score |-> 0, reasons |-> <<>>, raised |-> FALSE]

\* A variant of the loop below that looks for an interest in the title only.
RECURSIVE MatchInterestsInTitle(_, _, _, _)
MatchInterestsInTitle(cls, job, ints, acc) ==
    IF ints = <<>> THEN acc
    ELSE IF Contains(Lower(job[K_title].v), Lower(Head(ints)))
         THEN MatchInterestsInTitle(cls, job, Tail(ints),
                  [acc EXCEPT !.score = @ + 2,
                              !.reasons = Append(@, ReasonInterest \o Head(ints))])
         ELSE MatchInterestsInTitle(cls, job, Tail(ints), acc)

\* for interest in self.candidate_interests: the description is read only when the
\* title does not hold the interest (or), and reading it raises KeyError in JobMatcher
\* when the job has none.
RECURSIVE MatchInterests(_, _, _, _)
MatchInterests(cls, job, ints, acc) ==
    IF ints = <<>> \/ acc.raised THEN acc
    ELSE LET interest == Head(ints)
             inTitle  == Contains(Lower(job[K_title].v), Lower(interest))
         IN  IF ~inTitle /\ cls = "JobMatcher" /\ K_description \notin DOMAIN job
             THEN [acc EXCEPT !.raised = TRUE]
             ELSE IF inTitle \/ Contains(Lower(GetDescription(job)), Lower(interest))
             THEN MatchInterests(cls, job, Tail(ints),
                      [acc EXCEPT !.score = @ + 2,
                                  !.reasons = Append(@, ReasonInterest \o interest)])
             ELSE MatchInterests(cls, job, Tail(ints), acc)

\* A variant of the loop below that puts the reason of a skill at the front of the
\* list.
RECURSIVE MatchSkillsReasonFirst(_, _, _, _)
MatchSkillsReasonFirst(cls, job, skills, acc) ==
    IF skills = <<>> \/ acc.raised THEN acc
    ELSE IF cls = "JobMatcher" /\ K_description \notin DOMAIN job
         THEN [acc EXCEPT !.raised = TRUE]
         ELSE IF Contains(Lower(GetDescription(job)), Lower(Head(skills).v))
         THEN MatchSkillsReasonFirst(cls, job, Tail(skills),
                  [acc EXCEPT !.score = @ + 1,
                              !.reasons = <<ReasonSkill \o Head(skills).v>> \o @])
         ELSE MatchSkillsReasonFirst(cls, job, Tail(skills), acc)

\* for skill in skills
RECURSIVE MatchSkills(_, _, _, _)
MatchSkills(cls, job, skills, acc) ==
    IF skills = <<>> \/ acc.raised THEN acc
    ELSE IF cls = "JobMatcher" /\ K_description \notin DOMAIN job
         THEN [acc EXCEPT !.raised = TRUE]
         ELSE IF Contains(Lower(GetDescription(job)), Lower(Head(skills).v))
         THEN MatchSkills(cls, job, Tail(skills),
                  [acc EXCEPT !.score = @ + 1,
                              !.reasons = Append(@, ReasonSkill \o Head(skills).v)])
         ELSE MatchSkills(cls, job, Tail(skills), acc)

\* The body of the loop over the jobs, up to the threshold test.
ScoreJob(cls, profile, ints, job) ==
    MatchSkills(cls, job, Skills(profile), MatchInterests(cls, job, ints, Acc0))

\* job["initial_match_score"] = score; job["match_reasons"] = reasons
Annotated(job, acc) ==
    DictSet(DictSet(job, K_initial_match_score, JNum(acc.score)),
            K_match_reasons, JArr([k \in 1..Len(acc.reasons) |-> JStr(acc.reasons[k])]))

FilterInit ==
    /\ fclass \in FilterClasses
    /\ candidate_profile \in Profiles
    /\ candidate_interests \in InterestLists
    /\ fjobs0 \in UNION {[1..n -> FilterJobs] : n \in 0..MaxFilterJobs}
    /\ fjobs = fjobs0
    /\ scanned = 0
    /\ matches = <<>>
    /\ fpc = "start"
    /\ filtered = <<>>

\* One iteration of "for job in jobs".
FilterJob ==
    /\ fpc = "start"
    /\ scanned < Len(fjobs)
    /\ LET i   == scanned + 1
           acc == ScoreJob(fclass, candidate_profile, candidate_interests, fjobs[i])
       IN  /\ fpc' = IF acc.raised THEN "raised" ELSE "start"
           /\ scanned' = IF acc.raised THEN scanned ELSE i
           /\ fjobs' = IF ~acc.raised /\ acc.score >= 2
                       THEN [fjobs EXCEPT ![i] = Annotated(@, acc)]
                       ELSE fjobs
           /\ matches' = IF ~acc.raised /\ acc.score >= 2 THEN Append(matches, i)
                         ELSE matches
    /\ UNCHANGED <<fclass, candidate_profile, candidate_interests, fjobs0, filtered>>
    /\ UNCHANGED notFilterVars

\* return matches
FilterReturn ==
    /\ fpc = "start"
    /\ scanned = Len(fjobs)
    /\ fpc' = "done"
    /\ filtered' = matches
    /\ UNCHANGED <<fclass, candidate_profile, candidate_interests, fjobs0, fjobs, scanned,
                   matches>>
    /\ UNCHANGED notFilterVars

FilterNext == FilterJob \/ FilterReturn

-----------------------------------------------------------------------------
(* process_jobs (job_matcher/base.py, job_matcher/job_matcher.py):         *)
(* _enrich_job_details, then _filter_basic_criteria, then                  *)
(* _rank_jobs_with_ai on the list the filter returned.  The three run one  *)
(* after the other on the same dict objects: the ranker's job n is the     *)
(* filter's job filtered[n], and from the hand-over on its content is      *)
(* followed in jobs[n].  An exception of the filter leaves process_jobs    *)
(* (fpc = "raised").                                                       *)

\* _enrich_job_details: every path of its loop body appends the job it was given, so
\* the list it returns holds the objects of raw_jobs in their order, unchanged.
EnrichJobDetails(raw_jobs) == raw_jobs

\* The class whose _filter_basic_criteria a matcher runs.
FilterClassOf(m) == IF m = "JobMatcher" THEN "JobMatcher" ELSE "BaseJobMatcher"

\* The raw jobs: records of the sources, with a title, a company and a url, and a
\* description or none.
RawJob(i, job) ==
    DictSet(DictSet(job, K_company, JStr(<<"C">>)), K_url, JStr(<<"u", ToString(i)>>))

\* The candidates process_jobs is run for: with and without skills, one or two
\* interests.
ProcessProfiles ==
    {EmptyDict, DictSet(EmptyDict, K_skills, JArr(<< JStr(<<"P", "Y">>), JStr(<<"m", "l">>) >>))}
ProcessInterestLists ==
    { << <<"a", "i">> >>, << <<"c", "o", "d">>, <<"A", "i">> >> }

ProcessInit ==
    /\ matcher \in Matchers
    /\ fclass = FilterClassOf(matcher)
    /\ candidate_profile \in ProcessProfiles
    /\ candidate_interests \in ProcessInterestLists
    /\ \E picked \in UNION {[1..n -> FilterJobs] : n \in 0..MaxFilterJobs} :
         fjobs0 = EnrichJobDetails([i \in 1..Len(picked) |-> RawJob(i, picked[i])])
    /\ fjobs = fjobs0
    /\ scanned = 0
    /\ matches = <<>>
    /\ fpc = "start"
    /\ filtered = <<>>
    /\ jobs0 = <<>>
    /\ jobs = <<>>
    /\ replies = <<>>
    /\ calls = <<>>
    /\ ranked_jobs = <<>>
    /\ rpc = "idle"
    /\ ranked = <<>>

\* ranked_jobs = self._rank_jobs_with_ai(potential_matches): the ranker starts on the
\* jobs the filter returned.
ProcessRank ==
    /\ fpc = "done"
    /\ rpc = "idle"
    /\ jobs0' = [n \in 1..Len(filtered) |-> fjobs[filtered[n]]]
    /\ jobs' = jobs0'
    /\ rpc' = "start"
    /\ UNCHANGED <<matcher, replies, calls, ranked_jobs, ranked>>
    /\ UNCHANGED notRankVars

ProcessNext == FilterJob \/ FilterReturn \/ ProcessRank \/ RankEmpty \/ RankJob \/ RankSort

-----------------------------------------------------------------------------
(* The sources (job_board_scraper): LinkedInScraper.search,                *)
(* ClimatebaseScraper.search and GoogleJobSearcher.search.                 *)
(*                                                                         *)
(* A listing card of a fetched page is [title, url, bad]: the text of its  *)
(* title element ("" when it has none), the address of its link ("" when   *)
(* it has none) and whether reading it raises.  A page is                  *)
(* [status, cards]: status "raise" when the request itself raises, "error" *)
(* for a response other than 200, "ok" for 200; the body of a response     *)
(* holds whatever cards the server put there, with either status.  A       *)
(* returned job is                                                         *)
(* [title, url, source, kw, n]: kw and n (the keyword and the position of  *)
(* its card) stand for the other fields of the posting, which differ from  *)
(* card to card.                                                           *)

\* Most cards of a LinkedIn page, the largest limit searched with, and most cards
\* of a Climatebase or Google page.
MaxCards == 3
MaxLimit == 2
MaxPageCards == 2

\* for section in job_sections[:5]
GoogleSectionCap == 5

Card(title, url) == [title |-> title, url |-> url, bad |-> FALSE]
BadCard == [title |-> "", url |-> "", bad |-> TRUE]

LinkedInCards == {Card("T", "u1"), Card("T", "u2"), Card("", "u1"), Card("T", ""), BadCard}
\* A Climatebase link is relative: "/a" stands for href="/a", "" for a card without
\* a link element.
ClimatebaseCards == {Card("T", "/a"), Card("T", "/b"), Card("", "/a"), Card("T", ""), BadCard}
\* A Google section has no link of its own.
GoogleCards == {Card("T", ""), Card("", ""), BadCard}

SeqsUpTo(S, n) == UNION {[1..k -> S] : k \in 0..n}

Pages(cards, n) ==
    {[status |-> s, cards |-> c] : s \in {"ok", "error"}, c \in SeqsUpTo(cards, n)}
        \cup {[status |-> "raise", cards |-> <<>>]}

\* A Google page with more sections than the search reads.
GoogleLongPage ==
    [status |-> "ok", cards |-> [i \in 1..(GoogleSectionCap + 1) |-> Card("T", "")]]

Keywords == {"k1", "k2"}
KeywordLists == {<<"k1">>, <<"k1", "k2">>, <<"k1", "k1">>}

\* JobScraper._standardize_job
StandardizeJob(title, url, cls, kw, n) ==
    [title |-> title, url |-> url, source |-> cls, kw |-> kw, n |-> n]

\* A variant of the test below that looks at the title only.
AdmittedByTitle(title, url) == title # ""

\* if job["title"] and job["url"]
Admitted(title, url) == title # "" /\ url # ""

\* The first n elements of s: s[:n] for n >= 0.
Take(s, n) == SubSeq(s, 1, Min(n, Len(s)))

\* "Remove duplicates by URL": the first job of every url, in order.
RECURSIVE UniqueByUrl(_, _)
UniqueByUrl(js, seen_urls) ==
    IF js = <<>> THEN <<>>
    ELSE IF Head(js).url \in seen_urls THEN UniqueByUrl(Tail(js), seen_urls)
    ELSE <<Head(js)>> \o UniqueByUrl(Tail(js), seen_urls \cup {Head(js).url})

\* A variant of the loop below that ends at the first card that raises.
RECURSIVE LinkedInCardLoopAborting(_, _, _, _)
LinkedInCardLoopAborting(cards, i, js, lim) ==
    IF i > Len(cards) THEN js
    ELSE LET c == cards[i]
         IN  IF c.bad THEN js
             ELSE LET js2 == IF Admitted(c.title, c.url)
                             THEN Append(js, StandardizeJob(c.title, c.url,
                                                            "LinkedInScraper", "", i))
                             ELSE js
                  IN  IF Len(js2) >= lim THEN js2
                      ELSE LinkedInCardLoopAborting(cards, i + 1, js2, lim)

\* LinkedIn's loop over the cards from card i on: js the jobs appended so far
\* (job_count is their number).  A card that raises skips the rest of its iteration,
\* the limit test included.
RECURSIVE LinkedInCardLoop(_, _, _, _)
LinkedInCardLoop(cards, i, js, lim) ==
    IF i > Len(cards) THEN js
    ELSE LET c == cards[i]
         IN  IF c.bad THEN LinkedInCardLoop(cards, i + 1, js, lim)
             ELSE LET js2 == IF Admitted(c.title, c.url)
                             THEN Append(js, StandardizeJob(c.title, c.url,
                                                            "LinkedInScraper", "", i))
                             ELSE js
                  IN  IF Len(js2) >= lim THEN js2
                      ELSE LinkedInCardLoop(cards, i + 1, js2, lim)

\* LinkedInScraper.search(limit): a failed request leaves jobs empty.
LinkedInSearchResult(page, lim) ==
    LET js == IF page.status = "ok" THEN LinkedInCardLoop(page.cards, 1, <<>>, lim)
              ELSE <<>>
    IN  Take(UniqueByUrl(js, {}), lim)

\* The jobs of one Climatebase page; the url is the site's address followed by href.
RECURSIVE ClimatebaseCardLoop(_, _, _)
ClimatebaseCardLoop(cards, i, kw) ==
    IF i > Len(cards) THEN <<>>
    ELSE LET c   == cards[i]
             url == IF c.url = "" THEN "" ELSE "https://climatebase.org" \o c.url
             js  == IF ~c.bad /\ Admitted(c.title, url)
                    THEN <<StandardizeJob(c.title, url, "ClimatebaseScraper", kw, i)>>
                    ELSE <<>>
         IN  js \o ClimatebaseCardLoop(cards, i + 1, kw)

\* ClimatebaseScraper.search: keyword after keyword; a request that raises or is
\* not answered with 200 gives no jobs for its keyword.
RECURSIVE ClimatebaseSearchResult(_, _)
ClimatebaseSearchResult(kws, pages) ==
    IF kws = <<>> THEN <<>>
    ELSE LET page == pages[Head(kws)]
             js   == IF page.status = "ok"
                     THEN ClimatebaseCardLoop(page.cards, 1, Head(kws))
                     ELSE <<>>
         IN  js \o ClimatebaseSearchResult(Tail(kws), pages)

\* The jobs of one Google page: every job carries the address of the search itself.
RECURSIVE GoogleSectionLoop(_, _, _)
GoogleSectionLoop(sections, i, kw) ==
    IF i > Len(sections) THEN <<>>
    ELSE LET c   == sections[i]
             url == "https://www.google.com/search?q=" \o kw
             js  == IF ~c.bad /\ c.title # ""
                    THEN <<StandardizeJob(c.title, url, "GoogleJobSearcher", kw, i)>>
                    ELSE <<>>
         IN  js \o GoogleSectionLoop(sections, i + 1, kw)

\* GoogleJobSearcher.search: the status of the response is not looked at, so a page
\* answered with an error is read like any other.
RECURSIVE GoogleSearchResult(_, _)
GoogleSearchResult(kws, pages) ==
    IF kws = <<>> THEN <<>>
    ELSE LET page == pages[Head(kws)]
             js   == IF page.status # "raise"
                     THEN GoogleSectionLoop(Take(page.cards, GoogleSectionCap), 1, Head(kws))
                     ELSE <<>>
         IN  js \o GoogleSearchResult(Tail(kws), pages)

NoPages == [k \in Keywords |-> [status |-> "raise", cards |-> <<>>]]

SrcInit ==
    /\ spc = "start"
    /\ found = <<>>
    /\ \/ /\ source = "LinkedInScraper"
          /\ keywords = <<"k1">>
          /\ limit \in 0..MaxLimit
          /\ \E page \in Pages(LinkedInCards, MaxCards) :
                web = [k \in Keywords |-> page]
       \/ /\ source = "ClimatebaseScraper"
          /\ keywords \in KeywordLists
          /\ limit = 0
          /\ web \in [Keywords -> Pages(ClimatebaseCards, MaxPageCards)]
       \/ /\ source = "GoogleJobSearcher"
          /\ keywords \in KeywordLists
          /\ limit = 0
          /\ web \in [Keywords -> Pages(GoogleCards, MaxPageCards) \cup {GoogleLongPage}]

LinkedInSearch ==
    /\ spc = "start"
    /\ source = "LinkedInScraper"
    /\ found' = LinkedInSearchResult(web[keywords[1]], limit)
    /\ spc' = "done"
    /\ UNCHANGED <<source, keywords, limit, web>>
    /\ UNCHANGED notSrcVars

ClimatebaseSearch ==
    /\ spc = "start"
    /\ source = "ClimatebaseScraper"
    /\ found' = ClimatebaseSearchResult(keywords, web)
    /\ spc' = "done"
    /\ UNCHANGED <<source, keywords, limit, web>>
    /\ UNCHANGED notSrcVars

GoogleSearch ==
    /\ spc = "start"
    /\ source = "GoogleJobSearcher"
    /\ found' = GoogleSearchResult(keywords, web)
    /\ spc' = "done"
    /\ UNCHANGED <<source, keywords, limit, web>>
    /\ UNCHANGED notSrcVars

SrcNext == LinkedInSearch \/ ClimatebaseSearch \/ GoogleSearch

-----------------------------------------------------------------------------
(* JobSearchAgent.run_job_search (orchestrator/job_search_agent.py)        *)
(*                                                                         *)
(* A job database is a dict from url to job record; "r1" and "r2" stand    *)
(* for two records that differ in some field.  The file job_database.json  *)
(* is [state, data]: "absent", "ok" (data is what json.load gives), or,    *)
(* after a json.dump that raised part-way, "truncated" (nothing written    *)
(* after open(.., "w") emptied the file) or "partial" (a prefix of the     *)
(* text): json.load raises on both.  The agent executor, with the sources  *)
(* it calls as tools, is an external collaborator: one invocation either   *)
(* raises or returns a dict.  Its one tool (self.tools) is                 *)
(* linkedin_job_search_tool; the executor calls it as often as the LLM     *)
(* asks for it, and every call returns: the jobs found ("results") or,     *)
(* when anything in it raised, a list holding one error record ("error").  *)

\* Most runs followed.
MaxRuns == 2

Urls == {"u1", "u2"}
Records == {"r1", "r2"}

EmptyDatabase == [u \in {} |-> "r1"]
Databases == UNION {[U -> Records] : U \in SUBSET Urls}

File(state, data) == [state |-> state, data |-> data]

\* Most calls of the source tool in one run.
MaxToolCalls == 2

\* linkedin_job_search_tool_callable: return simplified_results, or the return of
\* its except clause.
ToolOutcomes == {"results", "error"}

OrchInit ==
    /\ disk \in {File("absent", EmptyDatabase)} \cup {File("ok", d) : d \in Databases}
    /\ disk0 = disk
    /\ job_database = EmptyDatabase
    /\ tool_calls = <<>>
    /\ result = EmptyDatabase
    /\ returned = EmptyDatabase
    /\ opc = "idle"
    /\ events = <<>>
    /\ runs = 0
    /\ prev = [ran |-> FALSE, ok |-> FALSE, result |-> EmptyDatabase]

\* "Load job database from file": only when the file exists; json.load raises on a
\* file that holds no complete JSON text, and the run ends there.
LoadDatabase ==
    /\ opc = "idle"
    /\ runs < MaxRuns
    /\ runs' = runs + 1
    /\ tool_calls' = <<>>
    /\ result' = EmptyDatabase
    /\ returned' = EmptyDatabase
    /\ \/ /\ disk.state = "absent"
          /\ events' = <<>>
          /\ opc' = "loaded"
          /\ UNCHANGED job_database
       \/ /\ disk.state = "ok"
          /\ events' = <<"load">>
          /\ job_database' = disk.data
          /\ opc' = "loaded"
       \/ /\ disk.state \in {"truncated", "partial"}
          /\ events' = <<"load">>
          /\ opc' = "failed"
          /\ UNCHANGED job_database
    /\ disk0' = disk
    /\ UNCHANGED <<disk, prev>>
    /\ UNCHANGED notOrchVars

\* A variant of the step below that saves in a finally clause: when the executor
\* raises, the file is written with the (empty) result all the same.
InvokeAgentSaving ==
    /\ opc = "loaded"
    /\ events' = Append(events, "invoke")
    /\ tool_calls' \in SeqsUpTo(ToolOutcomes, MaxToolCalls)
    /\ \/ /\ opc' = "failed"
          /\ disk' = File("ok", result)
          /\ UNCHANGED result
       \/ /\ result' \in Databases
          /\ opc' = "invoked"
          /\ UNCHANGED disk
    /\ UNCHANGED <<disk0, job_database, returned, runs, prev>>
    /\ UNCHANGED notOrchVars

\* "Run the agent": self.executor.invoke(...) raises, or returns what becomes result.
InvokeAgent ==
    /\ opc = "loaded"
    /\ events' = Append(events, "invoke")
    /\ tool_calls' \in SeqsUpTo(ToolOutcomes, MaxToolCalls)
    /\ \/ /\ opc' = "failed"
          /\ UNCHANGED result
       \/ /\ result' \in Databases
          /\ opc' = "invoked"
    /\ UNCHANGED <<disk, disk0, job_database, returned, runs, prev>>
    /\ UNCHANGED notOrchVars

\* "Write job database to file" and return: open(.., "w") empties the file and
\* json.dump(result, f) writes result; a json.dump that raises (a value json cannot
\* serialize, a failed write) leaves the file emptied or with a prefix of the text.
WriteDatabase ==
    /\ opc = "invoked"
    /\ events' = Append(events, "write")
    /\ \/ /\ disk' = File("ok", result)
          /\ returned' = result
          /\ opc' = "done"
       \/ /\ disk' \in {File("truncated", EmptyDatabase), File("partial", EmptyDatabase)}
          /\ opc' = "failed"
          /\ UNCHANGED returned
    /\ UNCHANGED <<disk0, job_database, tool_calls, result, runs, prev>>
    /\ UNCHANGED notOrchVars

\* The run is over; the next one is made by the same agent object or, in a new
\* process, by a new one (whose job_database starts empty).
NextRun ==
    /\ opc \in {"done", "failed"}
    /\ runs < MaxRuns
    /\ opc' = "idle"
    /\ prev' = [ran |-> TRUE, ok |-> opc = "done", result |-> result]
    /\ job_database' \in {job_database, EmptyDatabase}
    /\ UNCHANGED <<disk, disk0, tool_calls, result, returned, events, runs>>
    /\ UNCHANGED notOrchVars

OrchNext == LoadDatabase \/ InvokeAgent \/ WriteDatabase \/ NextRun

-----------------------------------------------------------------------------
(* Specifications: one per component, the other components at rest. *)

ParseIdle ==
    /\ parts = [none |-> TRUE, prose |-> <<>>, open |-> <<>>, pad |-> 0,
                payload |-> <<>>, close |-> <<>>]
    /\ ai_text = NoText
    /\ ppc = "idle"
    /\ ai_analysis = NotRun
    /\ bare_analysis = NotRun

RankIdle ==
    /\ matcher = "none"
    /\ jobs0 = <<>>
    /\ jobs = <<>>
    /\ replies = <<>>
    /\ calls = <<>>
    /\ ranked_jobs = <<>>
    /\ rpc = "idle"
    /\ ranked = <<>>

FilterIdle ==
    /\ fclass = "none"
    /\ candidate_profile = EmptyDict
    /\ candidate_interests = <<>>
    /\ fjobs0 = <<>>
    /\ fjobs = <<>>
    /\ scanned = 0
    /\ matches = <<>>
    /\ fpc = "idle"
    /\ filtered = <<>>

SrcIdle ==
    /\ source = "none"
    /\ keywords = <<>>
    /\ limit = 0
    /\ web = NoPages
    /\ found = <<>>
    /\ spc = "idle"

OrchIdle ==
    /\ disk = [state |-> "absent", data |-> <<>>]
    /\ disk0 = [state |-> "absent", data |-> <<>>]
    /\ job_database = <<>>
    /\ tool_calls = <<>>
    /\ result = <<>>
    /\ returned = <<>>
    /\ opc = "off"
    /\ events = <<>>
    /\ runs = 0
    /\ prev = [ran |-> FALSE, ok |-> FALSE, result |-> <<>>]

InitParse == ParseInit /\ RankIdle /\ FilterIdle /\ SrcIdle /\ OrchIdle
SpecParse == InitParse /\ [][ParseNext]_vars

InitRank == RankInit /\ ParseIdle /\ FilterIdle /\ SrcIdle /\ OrchIdle
SpecRank == InitRank /\ [][RankNext]_vars

InitFilter == FilterInit /\ ParseIdle /\ RankIdle /\ SrcIdle /\ OrchIdle
SpecFilter == InitFilter /\ [][FilterNext]_vars

InitProcess == ProcessInit /\ ParseIdle /\ SrcIdle /\ OrchIdle
SpecProcess == InitProcess /\ [][ProcessNext]_vars

InitSrc == SrcInit /\ ParseIdle /\ RankIdle /\ FilterIdle /\ OrchIdle
SpecSrc == InitSrc /\ [][SrcNext]_vars

InitOrch == OrchInit /\ ParseIdle /\ RankIdle /\ FilterIdle /\ SrcIdle
SpecOrch == InitOrch /\ [][OrchNext]_vars

-----------------------------------------------------------------------------
(* Properties of the orchestrator (SpecOrch) *)

\* The store as the run found it: what the file held, nothing when there was no file.
StoreAtStart == IF disk0.state = "ok" THEN disk0.data ELSE EmptyDatabase

\* The urls of result the store did not hold, with their records.
NewJobs == [u \in DOMAIN result \ DOMAIN StoreAtStart |-> result[u]]

\* C1: a run whose sources give the same results as the successful run before it,
\* the store untouched in between, returns an empty set of new jobs.
C1_IdempotentRerun ==
    (opc = "done" /\ prev.ran /\ prev.ok /\ prev.result = result)
        => returned = EmptyDatabase

\* C2: an entry of the store is written once: every url the store held when the run
\* started is still in the store when the run is done, with the record it had.
C2_StoreWriteOnce ==
    (opc = "done" /\ disk0.state = "ok")
        => /\ disk.state = "ok"
           /\ \A u \in DOMAIN disk0.data :
                u \in DOMAIN disk.data /\ disk.data[u] = disk0.data[u]

\* C3: a completed run returns exactly the jobs whose url the store did not hold
\* when the run started, and the store afterwards is the store before plus exactly
\* those jobs.
C3_ReturnsExactlyNew ==
    opc = "done"
        => /\ returned = NewJobs
           /\ disk.state = "ok"
           /\ disk.data = DictMerge(StoreAtStart, NewJobs)

\* C4: persisting is atomic: whatever happens while the store is written, the file
\* holds either the complete store of before the run or the complete new store, so
\* a later load never finds a partially written store.
C4_AtomicPersist ==
    /\ disk.state \in {"absent", "ok"}
    /\ disk = disk0 \/ (disk.state = "ok" /\ disk.data = result)

Count(s, e) == Cardinality({i \in 1..Len(s) : s[i] = e})

EverySourceFailed ==
    /\ tool_calls # <<>>
    /\ \A n \in 1..Len(tool_calls) : tool_calls[n] = "error"

\* C20: a run of run_job_search raises to its caller only if every configured
\* source failed.
C20_FailsOnlyWhenAllSourcesFail == opc = "failed" => EverySourceFailed

-----------------------------------------------------------------------------
(* Properties of the sources (SpecSrc) *)

\* C6: the list a source's search() returns holds every url at most once, whatever
\* the pages held.
C6_SourceDedup ==
    spc = "done"
        => \A i, j \in 1..Len(found) : found[i].url = found[j].url => i = j

\* The admissible listings of a LinkedIn page in page order: the cards that can be
\* read and have a title and a url.
RECURSIVE AdmissibleListings(_, _)
AdmissibleListings(cards, i) ==
    IF i > Len(cards) THEN <<>>
    ELSE LET c == cards[i]
         IN  (IF ~c.bad /\ c.title # "" /\ c.url # ""
              THEN <<StandardizeJob(c.title, c.url, "LinkedInScraper", "", i)>>
              ELSE <<>>) \o AdmissibleListings(cards, i + 1)

\* C7: LinkedInScraper.search(limit) returns the first limit-many admissible
\* listings with distinct urls in page order: at most limit, and exactly limit when
\* the page holds that many distinct urls, repeats among the earlier cards or not.
C7_FirstLimitDistinct ==
    (spc = "done" /\ source = "LinkedInScraper" /\ web[keywords[1]].status = "ok")
        => found = Take(UniqueByUrl(AdmissibleListings(web[keywords[1]].cards, 1), {}),
                        limit)

\* The records of found that come from the request for the k-th keyword (LinkedIn
\* makes one request).
RecordsOfRequest(k) ==
    {n \in 1..Len(found) : source = "LinkedInScraper" \/ found[n].kw = keywords[k]}

\* C17: a request that is answered with a status other than success gives no
\* records (and search() returns: it has no way to end but "done").
C17_NonSuccessGivesNothing ==
    spc = "done"
        => \A k \in 1..Len(keywords) :
             web[keywords[k]].status = "error" => RecordsOfRequest(k) = {}

\* The page without the cards that raise when they are read.
Readable(c) == ~c.bad
WithoutBadCards(page) == [page EXCEPT !.cards = SelectSeq(@, Readable)]

\* What identifies the listing a record was made from.
Listings(js) == [n \in 1..Len(js) |-> <<js[n].title, js[n].url, js[n].kw>>]

\* C18: a card that raises is skipped and takes nothing else with it: search()
\* returns the listings it returns for the same pages without the raising cards, in
\* the same order; for Climatebase, where no limit applies, these are all the
\* readable cards of the successful responses that have a title and a link.
C18_ListingFailureIsolation ==
    spc = "done"
        => /\ source = "LinkedInScraper"
                => Listings(found)
                     = Listings(LinkedInSearchResult(WithoutBadCards(web[keywords[1]]),
                                                     limit))
           /\ source = "ClimatebaseScraper"
                => /\ Listings(found)
                        = Listings(ClimatebaseSearchResult(keywords,
                                       [kw \in Keywords |-> WithoutBadCards(web[kw])]))
                   /\ \A k \in 1..Len(keywords) :
                        LET page == web[keywords[k]]
                        IN  \A i \in 1..Len(page.cards) :
                              (/\ page.status = "ok"
                               /\ ~page.cards[i].bad
                               /\ page.cards[i].title # ""
                               /\ page.cards[i].url # "")
                                 => \E n \in 1..Len(found) :
                                      found[n].kw = keywords[k] /\ found[n].n = i

\* A LinkedIn page whose first card raises and whose two other cards are returned.
C18_Witness ==
    /\ spc = "done"
    /\ source = "LinkedInScraper"
    /\ LET page == web[keywords[1]]
       IN  /\ page.status = "ok"
           /\ Len(page.cards) = 3
           /\ page.cards[1].bad
    /\ Len(found) = 2
    /\ found[1].n = 2
    /\ found[2].n = 3

\* C19: every record a source's search() returns has a non-empty title and a
\* non-empty url.
C19_AdmissionInvariant ==
    spc = "done" => \A n \in 1..Len(found) : found[n].title # "" /\ found[n].url # ""

\* A search that returned a record from a page that also held a card without a
\* title and a card without a link.
C19_Witness ==
    /\ spc = "done"
    /\ found # <<>>
    /\ LET page == web[keywords[1]]
       IN  /\ \E i \in 1..Len(page.cards) : ~page.cards[i].bad /\ page.cards[i].title = ""
           /\ \E i \in 1..Len(page.cards) :
                 /\ ~page.cards[i].bad
                 /\ page.cards[i].title # ""
                 /\ page.cards[i].url = ""

-----------------------------------------------------------------------------
(* Properties of the ranker (SpecRank) *)

\* The backend call for job i failed: it raised, was answered with a status other
\* than 200, or with a response that carries no text.
CallFailed(i) ==
    \/ replies[i].kind \in {"raise", "status", "envelope"}
    \/ replies[i].kind = "text" /\ replies[i].text.none

\* C8: one job's failure touches that job only: all n jobs are returned, the backend
\* is called for every job in order whatever happened before, a job whose call
\* failed carries the error marker and nothing else new, and every other job carries
\* no error marker and the scores its own response parsed to.
C8_PartialFailureIsolation ==
    (rpc = "done" /\ jobs0 # <<>>)
        => /\ Len(ranked) = Len(jobs0)
           /\ \A i \in 1..Len(jobs0) : \E n \in 1..Len(ranked) : ranked[n] = i
           /\ calls = [i \in 1..Len(jobs0) |-> i]
           /\ \A i \in 1..Len(jobs0) :
                IF CallFailed(i)
                THEN /\ DOMAIN jobs[i] = DOMAIN jobs0[i] \cup {K_ai_analysis_error}
                     /\ \A k \in DOMAIN jobs0[i] : jobs[i][k] = jobs0[i][k]
                ELSE LET a == ExtractJson(replies[i].text).val
                     IN  /\ K_ai_analysis_error \notin DOMAIN jobs[i]
                         /\ a.t = "obj" => jobs[i] = DictMerge(jobs0[i], a.v)

\* The sort key of the job at place n of the returned list.
RankedKey(n) == SortKey(jobs[ranked[n]])

\* C11: the returned list is in descending order of overall_score (a job without
\* one counting as 0), and jobs of equal overall_score are in their input order.
C11_RankingOrder ==
    rpc = "done"
        => \A a, b \in 1..Len(ranked) :
             (a < b /\ RankedKey(a).t = "num" /\ RankedKey(b).t = "num")
                => \/ RankedKey(a).v > RankedKey(b).v
                   \/ RankedKey(a).v = RankedKey(b).v /\ ranked[a] < ranked[b]

\* Four jobs that carry the overall_score values 3, 9, 9, 1 in input order have been
\* ranked.
FourJobsRanked ==
    /\ rpc = "done"
    /\ Len(jobs0) = 4
    /\ [i \in 1..4 |-> SortKey(jobs0[i])] = <<JNum(3), JNum(9), JNum(9), JNum(1)>>

\* C12, as stated: the four jobs come back with their scores in the order 9, 9, 1, 3,
\* the first job scoring 9 before the second.
C12_ExampleOrder ==
    FourJobsRanked
        => /\ [n \in 1..4 |-> RankedKey(n)] = <<JNum(9), JNum(9), JNum(1), JNum(3)>>
           /\ ranked[1] = 2 /\ ranked[2] = 3

\* C12, amended: the four jobs come back with their scores in the order 9, 9, 3, 1,
\* the first job scoring 9 before the second.
C12_ExampleOrderDescending ==
    FourJobsRanked
        => /\ [n \in 1..4 |-> RankedKey(n)] = <<JNum(9), JNum(9), JNum(3), JNum(1)>>
           /\ ranked = <<2, 3, 1, 4>>

C12_Witness ==
    /\ FourJobsRanked
    /\ matcher = "GroqJobMatcher"
    /\ ranked = <<2, 3, 1, 4>>

\* The four scores of an annotation.
ScoreKeys ==
    {K_experience_match_score, K_interest_match_score, K_interview_probability,
     K_overall_score}

\* C21: every score of a returned job (experience_match_score, interest_match_score,
\* interview_probability, overall_score) is an integer between 0 and 10.
C21_ScoresInRange ==
    rpc = "done"
        => \A i \in 1..Len(jobs) :
             \A k \in ScoreKeys \cap DOMAIN jobs[i] :
                jobs[i][k].t = "num" /\ jobs[i][k].v \in 0..10

\* C24: the returned list holds every input job exactly once, and when the sort
\* raises it is the input list in its order.
C24_RankIsPermutation ==
    rpc = "done"
        => /\ Len(ranked) = Len(jobs0)
           /\ \A i \in 1..Len(jobs0) :
                Cardinality({n \in 1..Len(ranked) : ranked[n] = i}) = 1
           /\ SortRaises(jobs, ranked_jobs) => ranked = [i \in 1..Len(jobs0) |-> i]

\* Three or more jobs whose keys cannot be ordered came back in input order, the
\* first of them with a key smaller than the key of a later one.
C24_Witness ==
    /\ rpc = "done"
    /\ Len(jobs0) >= 3
    /\ SortRaises(jobs, ranked_jobs)
    /\ ranked = [i \in 1..Len(jobs0) |-> i]
    /\ SortKey(jobs[1]) = JNum(3)
    /\ SortKey(jobs[2]) = JNum(9)

K_location == <<"l", "o", "c", "a", "t", "i", "o", "n">>
K_source == <<"s", "o", "u", "r", "c", "e">>
IdentityKeys == {K_url, K_title, K_company, K_location, K_description, K_source}

PlaceOf(i) == CHOOSE n \in 1..Len(ranked) : ranked[n] = i

\* C26: a job that carries ai_analysis_error and no overall_score comes after every
\* job with a positive overall_score, and is in input order with the other jobs whose
\* overall_score is 0 or missing.
C26_FailedJobRanksAsZero ==
    rpc = "done"
        => \A i, j \in 1..Len(jobs) :
             (K_ai_analysis_error \in DOMAIN jobs[i] /\ K_overall_score \notin DOMAIN jobs[i])
                => /\ (SortKey(jobs[j]).t = "num" /\ SortKey(jobs[j]).v > 0)
                        => PlaceOf(j) < PlaceOf(i)
                   /\ (i < j /\ SortKey(jobs[j]) = JNum(0)) => PlaceOf(i) < PlaceOf(j)
                   /\ (j < i /\ SortKey(jobs[j]) = JNum(0)) => PlaceOf(j) < PlaceOf(i)

\* C16: the four matchers give the same annotated jobs in the same order for the
\* same input jobs and the same backend outcomes.
C16_BackendsAgree ==
    rpc = "done"
        => \A m \in Matchers :
             RankOutcome(m, jobs0, replies) = [jobs |-> jobs, ranked |-> ranked]

-----------------------------------------------------------------------------
(* Properties of the keyword filter (SpecFilter) *)

\* The keyword kw occurs in text, case-insensitively: as a substring, so that the
\* empty keyword occurs in every text.
OccursIn(kw, text) == Contains(Lower(text), Lower(kw))

\* 2 for every candidate interest that occurs in the title or the description of job,
\* 1 for every candidate skill that occurs in its description.
KeywordScore(job) ==
    LET title == job[K_title].v
        desc  == GetDescription(job)
        sk    == Skills(candidate_profile)
    IN  2 * Cardinality({k \in 1..Len(candidate_interests) :
                            \/ OccursIn(candidate_interests[k], title)
                            \/ OccursIn(candidate_interests[k], desc)})
          + Cardinality({k \in 1..Len(sk) : OccursIn(sk[k].v, desc)})

Survives(i) == \E n \in 1..Len(filtered) : filtered[n] = i

\* C13: a job is in the output of _filter_basic_criteria if and only if twice the
\* number of interests occurring in its title or description plus the number of
\* skills occurring in its description is at least 2, and then its
\* initial_match_score is that number.
C13_FilterScoreThreshold ==
    fpc = "done"
        => \A i \in 1..Len(fjobs0) :
             /\ Survives(i) <=> KeywordScore(fjobs0[i]) >= 2
             /\ Survives(i)
                   => /\ K_initial_match_score \in DOMAIN fjobs[i]
                      /\ fjobs[i][K_initial_match_score] = JNum(KeywordScore(fjobs0[i]))

\* A job that holds an interest in its description only is returned with score 2, and
\* a job that scores 1 (a skill and no interest) is not.
C13_Witness ==
    /\ fpc = "done"
    /\ \E i, j \in 1..Len(fjobs0) :
         /\ Survives(i)
         /\ KeywordScore(fjobs0[i]) = 2
         /\ fjobs[i][K_initial_match_score] = JNum(2)
         /\ \A k \in 1..Len(candidate_interests) :
                ~OccursIn(candidate_interests[k], fjobs0[i][K_title].v)
         /\ ~Survives(j)
         /\ KeywordScore(fjobs0[j]) = 1

\* A keyword that is a text (not the empty string) occurs in text.
Mentions(text, kw) == kw # <<>> /\ OccursIn(kw, text)

\* Neither the title nor the description of job holds an interest or a skill.
NoKeyword(job) ==
    LET texts == {job[K_title].v, GetDescription(job)}
        sk    == Skills(candidate_profile)
    IN  /\ \A k \in 1..Len(candidate_interests), t \in texts :
              ~Mentions(t, candidate_interests[k])
        /\ \A k \in 1..Len(sk), t \in texts : ~Mentions(t, sk[k].v)

\* C14: a job whose title and description hold none of the interests and none of
\* the skills is not in the output of the keyword filter, also when the lists hold
\* an empty string.
C14_NoMatchNeverSurvives ==
    fpc = "done" => \A i \in 1..Len(fjobs0) : NoKeyword(fjobs0[i]) => ~Survives(i)

\* The interests (by place in the list) that occur in the title or description of job,
\* and the skills that occur in its description.
MatchedInterests(job) ==
    {k \in 1..Len(candidate_interests) :
        \/ OccursIn(candidate_interests[k], job[K_title].v)
        \/ OccursIn(candidate_interests[k], GetDescription(job))}
MatchedSkills(job) ==
    {k \in 1..Len(Skills(candidate_profile)) :
        OccursIn(Skills(candidate_profile)[k].v, GetDescription(job))}

\* The text t starts with the text p.
StartsWith(t, p) == Len(t) >= Len(p) /\ SubSeq(t, 1, Len(p)) = p

\* C30: the output of _filter_basic_criteria is a subsequence of its input (input
\* jobs, each at most once, in input order), and the match_reasons of a survivor are
\* one reason for each matched interest followed by one for each matched skill.
C30_FilterSubsequence ==
    fpc = "done"
        => /\ \A n \in 1..Len(filtered) : filtered[n] \in 1..Len(fjobs0)
           /\ \A a, b \in 1..Len(filtered) : a < b => filtered[a] < filtered[b]
           /\ \A n \in 1..Len(filtered) :
                LET job     == fjobs0[filtered[n]]
                    reasons == fjobs[filtered[n]][K_match_reasons].v
                    ni      == Cardinality(MatchedInterests(job))
                IN  /\ Len(reasons) = ni + Cardinality(MatchedSkills(job))
                    /\ \A k \in 1..Len(reasons) :
                         IF k <= ni THEN StartsWith(reasons[k].v, ReasonInterest)
                         ELSE StartsWith(reasons[k].v, ReasonSkill)

\* Two jobs of which the second alone is returned, with the reason of an interest and
\* then the reason of a skill.
C30_Witness ==
    /\ fpc = "done"
    /\ Len(fjobs0) = 2
    /\ filtered = <<2>>
    /\ Cardinality(MatchedInterests(fjobs0[2])) >= 1
    /\ Cardinality(MatchedSkills(fjobs0[2])) >= 1
    /\ Len(fjobs[2][K_match_reasons].v) >= 2

\* C23: when process_jobs has returned, the backend was called exactly once for each
\* job the filter returned and for no other job, only after the filter had returned,
\* and the result holds jobs the filter returned only.
C23_FilterPrecedesRanking ==
    /\ calls # <<>> => fpc = "done"
    /\ rpc = "done"
        => /\ \A n \in 1..Len(filtered) :
                Cardinality({k \in 1..Len(calls) : calls[k] = n}) = 1
           /\ \A k \in 1..Len(calls) : calls[k] \in 1..Len(filtered)
           /\ \A k \in 1..Len(ranked) : ranked[k] \in 1..Len(filtered)

\* The response of the backend for the ranker's job n was parsed: to this value.
ParsedFor(n) == Extract(matcher, replies[n].text)
WasParsed(n) == replies[n].kind = "text" /\ ~ParsedFor(n).raised

C15_FilterPure ==
    [][/\ fjobs' = fjobs
       /\ candidate_profile' = candidate_profile
       /\ candidate_interests' = candidate_interests]_vars

-----------------------------------------------------------------------------
(* Properties of the response parser (SpecParse) *)

\* C9: for every response text the parser raises nothing and returns a mapping, and
\* the sentinel annotation whenever the selected text is not a JSON object.
C9_ParseGivesMapping ==
    (ppc # "start" /\ ~parts.none)
        => /\ ~ai_analysis.raised
           /\ ai_analysis.val.t = "obj"
           /\ LET r == JsonLoads(JsonStr(Strip(ai_text.s)))
              IN  ~(r.ok /\ r.val.t = "obj") => ai_analysis.val = Sentinel

\* The payload is a valid annotation, wrapped in a fence labelled json behind the
\* leading prose, and both the response and the bare payload have been parsed.
FencedJsonRoundTrip ==
    /\ ppc = "both"
    /\ ~parts.none
    /\ parts.open = FenceJson
    /\ parts.close = Fence
    /\ JsonLoads(parts.payload).ok
    /\ JsonLoads(parts.payload).val.t = "obj"

\* C10, as stated: whatever the leading prose, a valid payload in a json fence
\* parses to what the bare payload parses to.
C10_FenceRoundTrip ==
    FencedJsonRoundTrip => ai_analysis = bare_analysis

\* C10, amended: when the leading prose holds no json fence of its own and the
\* payload holds no run of three backticks, the fenced response parses to what the
\* bare payload parses to, which is the payload's JSON value.
C10_FenceRoundTripClean ==
    (/\ FencedJsonRoundTrip
     /\ ~Contains(parts.prose, FenceJson)
     /\ ~Contains(parts.payload, Fence))
        => /\ ai_analysis = bare_analysis
           /\ ai_analysis = Returned(JsonLoads(parts.payload).val)

\* Prose that shows a fence of another kind, then a two-key annotation in a json fence.
C10_Witness ==
    /\ FencedJsonRoundTrip
    /\ parts.prose = ProseGeneric
    /\ parts.payload = PayloadFull
    /\ ai_analysis = Returned(JsonLoads(PayloadFull).val)

\* What parsing the text t gives: its JSON value, or the sentinel when it has none.
ParseOf(t) == LET r == JsonLoads(Strip(t)) IN Returned(IF r.ok THEN r.val ELSE Sentinel)

\* In s, the text behind the first occurrence of the fence open, and where the next
\* fence begins in it (0 when none follows).
BehindFence(s, open) == SubSeq(s, Find(s, open, 0) + Len(open) + 1, Len(s))
NextFence(t) == Find(t, Fence, 0) + 1

\* C22: the parser parses the text between the first fence labelled json and the
\* next fence when the response holds a json fence; else the text between the first
\* fence and the next when it holds a fence; else the whole stripped response.
\* (Stated for fences that are closed; an unclosed fence is the case of C28.)
C22_ExtractionPrecedence ==
    (ppc # "start" /\ ~parts.none)
        => LET s == Strip(ai_text.s)
               j == BehindFence(s, FenceJson)
               g == BehindFence(s, Fence)
           IN  IF Contains(s, FenceJson)
               THEN NextFence(j) > 0 => ai_analysis = ParseOf(SubSeq(j, 1, NextFence(j) - 1))
               ELSE IF Contains(s, Fence)
               THEN NextFence(g) > 0 => ai_analysis = ParseOf(SubSeq(g, 1, NextFence(g) - 1))
               ELSE ai_analysis = ParseOf(s)

\* Prose that shows a generic fence, then the annotation in a closed json fence: the
\* json fence wins although the generic fence comes first.
C22_Witness ==
    /\ ppc # "start"
    /\ parts.prose = ProseGeneric
    /\ parts.open = FenceJson
    /\ parts.payload = PayloadQuoted
    /\ parts.close = Fence
    /\ ai_analysis = Returned(Sentinel)

\* The response holds an opening fence and no fence behind it.
UnclosedFence(s) ==
    IF Contains(s, FenceJson) THEN NextFence(BehindFence(s, FenceJson)) = 0
    ELSE Contains(s, Fence) /\ NextFence(BehindFence(s, Fence)) = 0

\* The text behind the opening fence of s.
BehindOpening(s) ==
    IF Contains(s, FenceJson) THEN BehindFence(s, FenceJson) ELSE BehindFence(s, Fence)

\* C28: when the response holds an opening fence and no closing fence behind it, the
\* parser parses the text behind the opening fence less its last character, so that
\* a complete JSON object behind an unclosed fence gives the sentinel annotation.
C28_UnclosedFenceDropsLast ==
    (ppc # "start" /\ ~parts.none /\ UnclosedFence(Strip(ai_text.s)))
        => LET t == BehindOpening(Strip(ai_text.s))
           IN  /\ ai_analysis = ParseOf(SubSeq(t, 1, Len(t) - 1))
               /\ (JsonLoads(Strip(t)).ok /\ JsonLoads(Strip(t)).val.t = "obj")
                     => ai_analysis = Returned(Sentinel)

\* A complete annotation behind an unclosed json fence that parsed to the sentinel.
C28_Witness ==
    /\ ppc # "start"
    /\ parts.prose = ProseHere
    /\ parts.open = FenceJson
    /\ parts.payload = PayloadFull
    /\ parts.close = <<>>
    /\ ai_analysis = Returned(Sentinel)

\* The response, fences and all, is a JSON value that is not an object (nor the empty
\* array).
NonObjectResponse ==
    /\ ~parts.none
    /\ JsonLoads(Strip(ai_text.s)).ok
    /\ JsonLoads(Strip(ai_text.s)).val.t # "obj"
    /\ JsonLoads(Strip(ai_text.s)).val # JArr(<<>>)

====
